---- MODULE Spec2Model ----
(***************************************************************************)
(* Cyber Good News: the rule-based positive-impact scorer                  *)
(* (src/src/processors/positive_scorer.py), the feed collector, the story  *)
(* store, the Discord notifier and the collection cycle of app.py.         *)
(*                                                                         *)
(* Text is a sequence of one-character strings, so that lower-casing and   *)
(* substring containment are computed and not assumed.  Scores are kept in *)
(* tenths: 7.0 is 70, the 0.5 penalty is 5, the clamp is to 0..100.        *)
(***************************************************************************)
EXTENDS Integers, Sequences, FiniteSets, TLC

VARIABLES
    scoring_file,   \* what the lexicon file held when it was last loaded
    rules,          \* PositiveScorer.rules, the active rule set
    stories,        \* the record objects the caller holds, in batch order
    processed,      \* the list process_stories returned: indices into stories
    entry_processed, \* the records that were is_processed when that call began
    max_alerts,     \* Config.MAX_ALERTS_PER_HOUR as the environment set it
    db,             \* the stories table: the stored rows by id
    delivered,      \* per id, how often the webhook accepted the story
    attempted,      \* the records the last send_story_batch tried, in order
    cycles,         \* collection cycles run
    pc,             \* where a stepwise _analyze_story call stands
    frame           \* that call's locals and the rule sets its lookups read

scorer_vars == <<scoring_file, rules, stories, processed, entry_processed>>
cycle_vars == <<max_alerts, db, delivered, attempted, cycles>>
call_vars == <<pc, frame>>
vars == <<scoring_file, rules, stories, processed, entry_processed,
          max_alerts, db, delivered, attempted, cycles, pc, frame>>

\* ------------------------------------------------------------------ bounds
MaxBatch == 3
MaxFeed == 2
MaxCycles == 2

\* ------------------------------------------------------- program constants
\* Config.MIN_IMPACT_SCORE (default '5'), in tenths
MIN_IMPACT_SCORE == 50
\* min(10.0, ...) of _analyze_story, in tenths
MaxScore == 100
\* neg_count * 0.5 of _analyze_story, in tenths
NegPenalty == 5
\* len(tags) >= 8 and [:8] of _extract_tags
MaxTags == 8
\* 'Other', 3.0 and best_base = 3.0 of _categorize, in tenths
OtherBase == 30
\* cat_data.get('base_score', 5.0), in tenths
DefaultBase == 50
\* len(story.description) <= 200 of _generate_summary
SummaryLimit == 200
\* [:150] of _generate_summary
SentenceLimit == 150
\* Config.MAX_ALERTS_PER_HOUR when the environment does not set it
DefaultMaxAlerts == 5

\* -------------------------------------------------------------------- text
\* Python's None where a str is expected
None == <<"<None>">>

\* str.lower() on the letters the inputs use
LowerChar(c) ==
    CASE c = "A" -> "a"
      [] c = "H" -> "h"
      [] c = "N" -> "n"
      [] c = "W" -> "w"
      [] OTHER -> c

Lower(s) == [i \in 1..Len(s) |-> LowerChar(s[i])]

\* f"{x}": None formats as the text None
Format(x) == IF x = None THEN <<"N", "o", "n", "e">> ELSE x

\* kw in text: substring containment (the empty string is in every text)
Contains(kw, text) ==
    \E i \in 0..(Len(text) - Len(kw)) : SubSeq(text, i + 1, i + Len(kw)) = kw

\* sum(1 for kw in keywords if kw.lower() in text)
CountMatches(keywords, text) ==
    Cardinality({i \in 1..Len(keywords) : Contains(Lower(keywords[i]), text)})

\* any(kw.lower() in text for kw in keywords)
AnyMatch(keywords, text) ==
    \E i \in 1..Len(keywords) : Contains(Lower(keywords[i]), text)

\* ------------------------------------------------------------------- words
wArrest == <<"a", "r", "r", "e", "s", "t">>
wArr == <<"a", "r", "r">>
wRest == <<"r", "e", "s", "t">>
wRes == <<"r", "e", "s">>
wEst == <<"e", "s", "t">>
wRr == <<"r", "r">>
wSt == <<"s", "t">>
wWinCap == <<"W", "i", "n">>
wWin == <<"w", "i", "n">>
wFix == <<"f", "i", "x">>
wHack == <<"h", "a", "c", "k">>
wAck == <<"a", "c", "k">>
wLeak == <<"l", "e", "a", "k">>

\* ---------------------------------------------------------------- rule sets
RuleKeys == {"positive_categories", "positive_signals", "negative_indicators",
             "impact_modifiers"}

\* yaml.safe_load of an empty document: None
NoRules == [loaded |-> FALSE, keys |-> {},
            positive_categories |-> <<>>, positive_signals |-> <<>>,
            negative_indicators |-> <<>>, impact_modifiers |-> <<>>]

\* the built-in lexicon: positive_categories is its only key
DefaultRules ==
    [loaded |-> TRUE, keys |-> {"positive_categories"},
     positive_categories |-> <<
        [name |-> "Security Wins",
         keywords |-> <<<<"a","r","r","e","s","t","e","d">>,
                        <<"t","a","k","e","d","o","w","n">>,
                        <<"d","i","s","m","a","n","t","l","e","d">>,
                        <<"s","e","i","z","e","d">>>>,
         base_score |-> <<70>>],
        [name |-> "Innovation & Research",
         keywords |-> <<<<"n","e","w"," ","t","o","o","l">>,
                        <<"o","p","e","n"," ","s","o","u","r","c","e">>,
                        <<"r","e","s","e","a","r","c","h">>>>,
         base_score |-> <<60>>] >>,
     positive_signals |-> <<>>, negative_indicators |-> <<>>,
     impact_modifiers |-> <<>>]

\* a lexicon file with every key: two categories tied on "Arrest", a
\* modifier above the clamp and a negative one
RulesA ==
    [loaded |-> TRUE, keys |-> RuleKeys,
     positive_categories |-> <<
        [name |-> "Security Wins",
         keywords |-> <<wArrest, wArr, wRest, wRes>>, base_score |-> <<70>>],
        [name |-> "Threat Takedowns",
         keywords |-> <<wEst, wRr, wSt, wWinCap>>, base_score |-> <<80>>] >>,
     positive_signals |-> <<wArrest, wWinCap>>,
     negative_indicators |-> <<wHack, wAck>>,
     impact_modifiers |-> <<
        [keywords |-> <<wFix, wWin>>, modifier |-> <<35>>],
        [keywords |-> <<wLeak>>, modifier |-> <<-20>>] >>]

\* a lexicon file whose first category has no base_score (so that it scores
\* the threshold exactly), whose second category ties with the first on
\* every text, and whose modifier drives the score below zero
RulesB ==
    [loaded |-> TRUE, keys |-> RuleKeys,
     positive_categories |-> <<
        [name |-> "Innovation & Research",
         keywords |-> <<wFix>>, base_score |-> <<>>],
        [name |-> "Open Source & Tools",
         keywords |-> <<wFix>>, base_score |-> <<90>>] >>,
     positive_signals |-> <<wWin, wArrest>>,
     negative_indicators |-> <<wHack>>,
     impact_modifiers |-> <<
        [keywords |-> <<wLeak>>, modifier |-> <<-60>>] >>]

\* what the lexicon file can hold
FileContents == {"missing", "malformed", "empty", "A", "B"}

\* self.rules.get(key, {}) / .get('keywords', [])
RulesGet(rs, key) == IF key \in rs.keys THEN rs[key] ELSE <<>>

\* cat_data.get('base_score', 5.0)
BaseScoreOf(cat) ==
    IF cat.base_score = <<>> THEN DefaultBase ELSE cat.base_score[1]

\* mod_data.get('modifier', 0.0)
ModifierOf(mod) == IF mod.modifier = <<>> THEN 0 ELSE mod.modifier[1]

\* PositiveScorer._get_default_rules
GetDefaultRules == DefaultRules

\* PositiveScorer._load_scoring_rules: open or parse raising falls back to
\* the default; an empty document loads as None without raising
LoadScoringRules(file) ==
    CASE file = "missing" -> GetDefaultRules
      [] file = "malformed" -> GetDefaultRules
      [] file = "empty" -> NoRules
      [] file = "A" -> RulesA
      [] file = "B" -> RulesB

\* ----------------------------------------------------------------- records
\* summary: Optional[str] = None
NoSummary == [label |-> "", category |-> "", source |-> "", text |-> None]

\* hashlib.md5(entry.link.encode()).hexdigest(): one digest per link
StoryId(link) == <<"md5", link>>

\* models.CyberGoodNews as RSSCollector._collect_from_feed builds it
NewStory(entry) ==
    [id |-> StoryId(entry.link), title |-> entry.title, description |-> entry.summary,
     source |-> "feed", category |-> "Uncategorized", impact_score |-> 0,
     summary |-> NoSummary, tags |-> {}, has_tags |-> FALSE,
     is_processed |-> FALSE, is_sent |-> FALSE]

\* --------------------------------------------------------------- the scorer
\* CategorizeFrom replacing the best on an equal count: matches >= best_score
RECURSIVE CategorizeFrom_LastWins(_, _, _, _)
CategorizeFrom_LastWins(cats, i, text, best) ==
    IF i > Len(cats) THEN best
    ELSE LET matches == CountMatches(cats[i].keywords, text) IN
         IF matches >= best.score
         THEN CategorizeFrom_LastWins(cats, i + 1, text,
                  [score |-> matches, name |-> cats[i].name,
                   base |-> BaseScoreOf(cats[i]), found |-> TRUE])
         ELSE CategorizeFrom_LastWins(cats, i + 1, text, best)

\* PositiveScorer._categorize: the running best over the categories in
\* declaration order, replaced only by a strictly greater match count
RECURSIVE CategorizeFrom(_, _, _, _)
CategorizeFrom(cats, i, text, best) ==
    IF i > Len(cats) THEN best
    ELSE LET matches == CountMatches(cats[i].keywords, text) IN
         IF matches > best.score
         THEN CategorizeFrom(cats, i + 1, text,
                  [score |-> matches, name |-> cats[i].name,
                   base |-> BaseScoreOf(cats[i]), found |-> TRUE])
         ELSE CategorizeFrom(cats, i + 1, text, best)

Categorize(text, rs) ==
    LET best == CategorizeFrom(RulesGet(rs, "positive_categories"), 1, text,
                    [score |-> 0, name |-> "", base |-> OtherBase,
                     found |-> FALSE])
    IN IF ~best.found THEN [category |-> "Other", base |-> OtherBase]
       ELSE [category |-> best.name, base |-> best.base]

\* PositiveScorer._calculate_impact: each modifier with a keyword in the text
\* adds its delta once
RECURSIVE ImpactFrom(_, _, _, _)
ImpactFrom(mods, i, text, score) ==
    IF i > Len(mods) THEN score
    ELSE ImpactFrom(mods, i + 1, text,
             IF AnyMatch(mods[i].keywords, text)
             THEN score + ModifierOf(mods[i]) ELSE score)

CalculateImpact(text, base_score, rs) ==
    ImpactFrom(RulesGet(rs, "impact_modifiers"), 1, text, base_score)

\* the two tags every classified story starts from
BaseTags == {<<"cyber-good-news">>, <<"security-positive">>}

\* the keywords of all categories, in the order _extract_tags visits them
RECURSIVE AllKeywords(_, _)
AllKeywords(cats, i) ==
    IF i > Len(cats) THEN <<>>
    ELSE cats[i].keywords \o AllKeywords(cats, i + 1)

\* TagScan stopping one member late: len(tags) > 8
RECURSIVE TagScan_LateStop(_, _, _, _)
TagScan_LateStop(kws, i, text, tags) ==
    IF i > Len(kws) THEN tags
    ELSE IF Contains(Lower(kws[i]), text)
         THEN LET t == tags \cup {kws[i]} IN
              IF Cardinality(t) > MaxTags THEN t
              ELSE TagScan_LateStop(kws, i + 1, text, t)
         ELSE TagScan_LateStop(kws, i + 1, text, tags)

\* the loop of _extract_tags: add each matching keyword as written, stop as
\* soon as the set holds MaxTags members
RECURSIVE TagScan(_, _, _, _)
TagScan(kws, i, text, tags) ==
    IF i > Len(kws) THEN tags
    ELSE IF Contains(Lower(kws[i]), text)
         THEN LET t == tags \cup {kws[i]} IN
              IF Cardinality(t) >= MaxTags THEN t
              ELSE TagScan(kws, i + 1, text, t)
         ELSE TagScan(kws, i + 1, text, tags)

\* list(tags)[:8]: a set lists in no fixed order, so the slice is any
\* MaxTags of its members (all of them when there are no more)
ListPrefix(tags) ==
    IF Cardinality(tags) <= MaxTags THEN {tags}
    ELSE {t \in SUBSET tags : Cardinality(t) = MaxTags}

\* PositiveScorer._extract_tags: the tag lists it can return
ExtractTags(text, rs) ==
    ListPrefix(TagScan(AllKeywords(RulesGet(rs, "positive_categories"), 1), 1,
                       text, BaseTags))

\* PositiveScorer._get_impact_label
GetImpactLabel(score) ==
    IF score >= 80 THEN "Outstanding"
    ELSE IF score >= 60 THEN "High"
    ELSE IF score >= 40 THEN "Moderate"
    ELSE "Notable"

\* description.split('.')[0]
RECURSIVE BeforePeriod(_, _)
BeforePeriod(s, i) ==
    IF i > Len(s) \/ s[i] = "." THEN SubSeq(s, 1, i - 1)
    ELSE BeforePeriod(s, i + 1)

\* PositiveScorer._generate_summary (the description is a str here): the
\* description itself when short, else label, category, source and the
\* first sentence cut to SentenceLimit
GenerateSummary(story) ==
    IF Len(story.description) <= SummaryLimit
    THEN [label |-> "", category |-> "", source |-> "",
          text |-> story.description]
    ELSE LET first == BeforePeriod(story.description, 1) IN
         [label |-> GetImpactLabel(story.impact_score),
          category |-> story.category, source |-> story.source,
          text |-> SubSeq(first, 1,
                     IF Len(first) < SentenceLimit THEN Len(first)
                     ELSE SentenceLimit)]

\* Clamp with the ceiling left out: max(0.0, score)
Clamp_NoCeiling(score) == IF score > 0 THEN score ELSE 0

\* min(10.0, max(0.0, score))
Clamp(score) ==
    LET lo == IF score > 0 THEN score ELSE 0
    IN IF lo < MaxScore THEN lo ELSE MaxScore

\* text of _analyze_story: f"{story.title} {story.description}".lower()
TextOf(story) ==
    Lower(Format(story.title) \o <<" ">> \o Format(story.description))

\* TitlePos counting over the full text, as body_pos does
TitlePos_FullText(story, rs) ==
    CountMatches(RulesGet(rs, "positive_signals"), TextOf(story))

\* title_pos of _analyze_story: positive signals counted in the title alone
TitlePos(story, rs) ==
    CountMatches(RulesGet(rs, "positive_signals"), Lower(story.title))

\* title_neg of _analyze_story: negative indicators counted in the title
TitleNeg(story, rs) ==
    CountMatches(RulesGet(rs, "negative_indicators"), Lower(story.title))

\* NegCount counting in the title alone, as title_neg does
NegCount_TitleOnly(story, rs) ==
    CountMatches(RulesGet(rs, "negative_indicators"), Lower(story.title))

\* neg_count of _analyze_story: negative indicators counted in the full text
NegCount(story, rs) ==
    CountMatches(RulesGet(rs, "negative_indicators"), TextOf(story))

\* if title_pos == 0
Gate1(title_pos) == title_pos = 0

\* Gate2 with its operands exchanged: title_pos > title_neg
Gate2_Swapped(title_neg, title_pos) == title_pos > title_neg

\* if title_neg > title_pos
Gate2(title_neg, title_pos) == title_neg > title_pos

\* the score of _analyze_story before the clamp: the impact of the category
\* and the modifiers, less the penalty when neg_count > 0
RawScore(story, rs) ==
    LET impact == CalculateImpact(TextOf(story),
                                  Categorize(TextOf(story), rs).base, rs)
        neg_count == NegCount(story, rs)
    IN IF neg_count > 0 THEN impact - neg_count * NegPenalty ELSE impact

\* PositiveScorer._analyze_story: the outcomes of one classification, each
\* the record as the call leaves it and whether the call raised.
\*   title None: story.title.lower() raises before any field is written;
\*   rules None: self.rules.get raises before any field is written;
\*   description None: len(story.description) in _generate_summary raises
\*   after category, impact_score and tags were written.
AnalyzeStory(story, rs) ==
    IF story.title = None \/ ~rs.loaded
    THEN {[story |-> story, raised |-> TRUE]}
    ELSE IF Gate1(TitlePos(story, rs))
    THEN {[story |-> [story EXCEPT !.impact_score = 0, !.category = "Neutral"],
           raised |-> FALSE]}
    ELSE IF Gate2(TitleNeg(story, rs), TitlePos(story, rs))
    THEN {[story |-> [story EXCEPT !.impact_score = 0, !.category = "Negative"],
           raised |-> FALSE]}
    ELSE
    LET scored == [story EXCEPT
                      !.category = Categorize(TextOf(story), rs).category,
                      !.impact_score = Clamp(RawScore(story, rs))]
    IN
    {IF story.description = None
     THEN [story |-> [scored EXCEPT !.tags = t, !.has_tags = TRUE],
           raised |-> TRUE]
     ELSE [story |-> [scored EXCEPT !.tags = t, !.has_tags = TRUE,
                                    !.summary = GenerateSummary(scored)],
           raised |-> FALSE]
     : t \in ExtractTags(TextOf(story), rs)}

\* Keeps testing for a positive score instead of the threshold
Keeps_AnyPositive(story) == story.impact_score > 0

\* the filter of process_stories: only keep stories that score positively
Keeps(story) == story.impact_score >= MIN_IMPACT_SCORE

\* ProcessOne passing over a processed record without the filter
ProcessOne_SkipProcessed(story, rs) ==
    IF story.is_processed
    THEN {[story |-> story, kept |-> FALSE, raised |-> FALSE]}
    ELSE {IF o.raised
          THEN [story |-> o.story, kept |-> FALSE, raised |-> TRUE]
          ELSE [story |-> [o.story EXCEPT !.is_processed = TRUE],
                kept |-> Keeps(o.story), raised |-> FALSE]
          : o \in AnalyzeStory(story, rs)}

\* ProcessOne setting is_processed before _analyze_story is called
ProcessOne_MarkFirst(story, rs) ==
    IF story.is_processed
    THEN {[story |-> story, kept |-> Keeps(story), raised |-> FALSE]}
    ELSE {IF o.raised
          THEN [story |-> [o.story EXCEPT !.is_processed = TRUE],
                kept |-> FALSE, raised |-> TRUE]
          ELSE [story |-> [o.story EXCEPT !.is_processed = TRUE],
                kept |-> Keeps(o.story), raised |-> FALSE]
          : o \in AnalyzeStory(story, rs)}

\* one iteration of the loop of process_stories on a record: the outcomes,
\* each the record afterwards, whether it was appended and whether the
\* classification raised.  A raise inside the try is caught: the record is
\* not marked processed and not appended.
ProcessOne(story, rs) ==
    IF story.is_processed
    THEN {[story |-> story, kept |-> Keeps(story), raised |-> FALSE]}
    ELSE {IF o.raised
          THEN [story |-> o.story, kept |-> FALSE, raised |-> TRUE]
          ELSE [story |-> [o.story EXCEPT !.is_processed = TRUE],
                kept |-> Keeps(o.story), raised |-> FALSE]
          : o \in AnalyzeStory(story, rs)}

\* ProcessFrom with the try around the loop: a raise ends the batch
RECURSIVE ProcessFrom_AbortOnRaise(_, _, _)
ProcessFrom_AbortOnRaise(batch, i, rs) ==
    IF i > Len(batch) THEN {[stories |-> <<>>, processed |-> <<>>]}
    ELSE UNION {
           IF o.raised
           THEN {[stories |-> <<o.story>> \o SubSeq(batch, i + 1, Len(batch)),
                  processed |-> <<>>]}
           ELSE {[stories |-> <<o.story>> \o rest.stories,
                  processed |-> (IF o.kept THEN <<i>> ELSE <<>>) \o rest.processed]
                 : rest \in ProcessFrom_AbortOnRaise(batch, i + 1, rs)}
           : o \in ProcessOne(batch[i], rs)}

\* PositiveScorer.process_stories over the records from i on: the outcomes,
\* each the records afterwards and the indices appended, in order
RECURSIVE ProcessFrom(_, _, _)
ProcessFrom(batch, i, rs) ==
    IF i > Len(batch) THEN {[stories |-> <<>>, processed |-> <<>>]}
    ELSE {[stories |-> <<o.story>> \o rest.stories,
           processed |-> (IF o.kept THEN <<i>> ELSE <<>>) \o rest.processed]
          : o \in ProcessOne(batch[i], rs), rest \in ProcessFrom(batch, i + 1, rs)}

ProcessStoriesOutcomes(batch, rs) == ProcessFrom(batch, 1, rs)

\* ------------------------------------------------------------------ inputs
tArrest == <<"A", "r", "r", "e", "s", "t">>
tHack == <<"H", "a", "c", "k">>
tHackWin == <<"H", "a", "c", "k", " ", "w", "i", "n">>
dWinFix == <<"w", "i", "n", " ", "f", "i", "x">>
dHackLeak == <<"h", "a", "c", "k", " ", "l", "e", "a", "k">>

\* a feed entry: a link, a title, a summary
Entry(link, title, summary) ==
    [link |-> link, title |-> title, summary |-> summary]

\* the entries the scorer is exercised on
Entries ==
    {Entry("u1", tArrest, dWinFix), Entry("u2", wWin, dHackLeak),
     Entry("u3", tHackWin, <<>>), Entry("u4", tHack, dWinFix),
     Entry("u5", None, <<>>), Entry("u6", wWin, None)}

\* the entries the feeds of a collection cycle carry
CycleEntries ==
    {Entry("u1", tArrest, dWinFix), Entry("u2", wWin, dHackLeak),
     Entry("u3", tHackWin, <<>>)}

\* the ids of the stories the feeds can carry
StoryIds == {StoryId(e.link) : e \in Entries \cup CycleEntries}

\* the batches the scorer is called on
Batches == UNION {[1..n -> Entries] : n \in 1..MaxBatch}

\* the entry lists one fetch of the feeds can return
Feeds == UNION {[1..n -> CycleEntries] : n \in 1..MaxFeed}

\* RSSCollector._collect_from_feed: one fresh record per entry, in order
CollectFromFeed(feed) == [i \in 1..Len(feed) |-> NewStory(feed[i])]

\* ----------------------------------------------------------------- actions
\* the locals of an _analyze_story call before its first lookup: reads is
\* the value of self.rules at each lookup the call has made so far
NoFrame == [reads |-> <<>>, title_pos |-> 0, neg_count |-> 0, base |-> 0]

\* PositiveScorer.__init__ loads the rules from the lexicon file; the caller
\* holds a batch of fresh records from the collector
Init ==
    /\ scoring_file \in FileContents
    /\ rules = LoadScoringRules(scoring_file)
    /\ \E feed \in Batches : stories = CollectFromFeed(feed)
    /\ processed = <<>>
    /\ entry_processed = {}
    /\ max_alerts = DefaultMaxAlerts
    /\ db = <<>>
    /\ delivered = [id \in StoryIds |-> 0]
    /\ attempted = <<>>
    /\ cycles = 0
    /\ pc = "idle"
    /\ frame = NoFrame

\* PositiveScorer.process_stories on the records held
ProcessStories ==
    /\ \E o \in ProcessStoriesOutcomes(stories, rules) :
        /\ stories' = o.stories
        /\ processed' = o.processed
    /\ entry_processed' = {i \in 1..Len(stories) : stories[i].is_processed}
    /\ UNCHANGED <<scoring_file, rules>>
    /\ UNCHANGED cycle_vars
    /\ UNCHANGED call_vars

\* PositiveScorer.reload_rules: the rules become what the lexicon file
\* holds at that moment
ReloadRules ==
    \E c \in FileContents :
        /\ scoring_file' = c
        /\ rules' = LoadScoringRules(c)
        /\ UNCHANGED <<stories, processed, entry_processed>>
        /\ UNCHANGED cycle_vars
        /\ UNCHANGED call_vars

Next == ProcessStories \/ ReloadRules

Spec == Init /\ [][Next]_vars

\* ------------------------------------------------------ the collection cycle
\* StoryDatabase.save_story: a row is inserted unless the id is stored
SaveStory(table, story) ==
    IF \E r \in 1..Len(table) : table[r].id = story.id
    THEN [db |-> table, new |-> FALSE]
    ELSE [db |-> Append(table,
                    [id |-> story.id, category |-> story.category,
                     impact_score |-> story.impact_score,
                     is_processed |-> IF story.is_processed THEN 1 ELSE 0,
                     is_sent |-> IF story.is_sent THEN 1 ELSE 0]),
          new |-> TRUE]

\* StoryDatabase.save_stories over the records at idx[k..]: the table
\* afterwards and the number of rows inserted
RECURSIVE SaveStories(_, _, _, _)
SaveStories(table, recs, idx, k) ==
    IF k > Len(idx) THEN [db |-> table, new_count |-> 0]
    ELSE LET one == SaveStory(table, recs[idx[k]])
             rest == SaveStories(one.db, recs, idx, k + 1)
         IN [db |-> rest.db,
             new_count |-> rest.new_count + (IF one.new THEN 1 ELSE 0)]

\* StoryDatabase.mark_as_sent: UPDATE stories SET is_sent = 1 WHERE id = ?
MarkAsSent(table, id) ==
    [r \in 1..Len(table) |->
        IF table[r].id = id THEN [table[r] EXCEPT !.is_sent = 1] ELSE table[r]]

\* MarkSent without the test of is_sent: every record handed to the batch
\* is marked
RECURSIVE MarkSent_All(_, _, _, _)
MarkSent_All(table, recs, unsent, k) ==
    IF k > Len(unsent) THEN table
    ELSE MarkSent_All(MarkAsSent(table, recs[unsent[k]].id),
                      recs, unsent, k + 1)

\* the loop of collect_and_alert over unsent[k..]: mark_as_sent for each
\* record that is_sent
RECURSIVE MarkSent(_, _, _, _)
MarkSent(table, recs, unsent, k) ==
    IF k > Len(unsent) THEN table
    ELSE MarkSent(IF recs[unsent[k]].is_sent
                  THEN MarkAsSent(table, recs[unsent[k]].id) ELSE table,
                  recs, unsent, k + 1)

\* InsertDesc without reverse=True: ascending score order
RECURSIVE InsertDesc_Ascending(_, _, _)
InsertDesc_Ascending(recs, sorted, i) ==
    IF sorted = <<>> THEN <<i>>
    ELSE IF recs[Head(sorted)].impact_score <= recs[i].impact_score
         THEN <<Head(sorted)>> \o InsertDesc_Ascending(recs, Tail(sorted), i)
         ELSE <<i>> \o sorted

\* sorted(..., key=impact_score, reverse=True): insertion of index i into a
\* list in descending score order, after the members that score the same
RECURSIVE InsertDesc(_, _, _)
InsertDesc(recs, sorted, i) ==
    IF sorted = <<>> THEN <<i>>
    ELSE IF recs[Head(sorted)].impact_score >= recs[i].impact_score
         THEN <<Head(sorted)>> \o InsertDesc(recs, Tail(sorted), i)
         ELSE <<i>> \o sorted

RECURSIVE SortDesc(_, _, _)
SortDesc(recs, idx, k) ==
    IF k = 0 THEN <<>>
    ELSE InsertDesc(recs, SortDesc(recs, idx, k - 1), idx[k])

\* top_stories of send_story_batch: the eligible records in descending
\* score order, cut to max_alerts
TopStories(recs, idx, limit) ==
    LET eligible == SelectSeq(idx, LAMBDA i : Keeps(recs[i]))
        ranked == SortDesc(recs, eligible, Len(eligible))
    IN SubSeq(ranked, 1, IF Len(ranked) < limit THEN Len(ranked) ELSE limit)

\* DiscordNotifier.send_story_alert on each of top: the record is_sent when
\* the webhook accepted the post (ok holds the positions that succeed)
SendStoryBatch(recs, top, ok) ==
    [i \in 1..Len(recs) |->
        IF \E k \in ok : top[k] = i
        THEN [recs[i] EXCEPT !.is_sent = TRUE] ELSE recs[i]]

\* the environment fixes MAX_ALERTS_PER_HOUR; the store starts empty
AlertLimits == {1, DefaultMaxAlerts}

CycleInit ==
    /\ scoring_file \in FileContents
    /\ rules = LoadScoringRules(scoring_file)
    /\ stories = <<>>
    /\ processed = <<>>
    /\ entry_processed = {}
    /\ max_alerts \in AlertLimits
    /\ db = <<>>
    /\ delivered = [id \in StoryIds |-> 0]
    /\ attempted = <<>>
    /\ cycles = 0
    /\ pc = "idle"
    /\ frame = NoFrame

\* CyberGoodNews.collect_and_alert: collect, score, save, and when a row
\* was inserted send the unsent positive stories and mark the sent ones
CollectAndAlert ==
    /\ cycles < MaxCycles
    /\ cycles' = cycles + 1
    /\ \E feed \in Feeds :
       \E o \in ProcessStoriesOutcomes(CollectFromFeed(feed), rules) :
       \E saved \in {SaveStories(db, o.stories, o.processed, 1)} :
       \E unsent \in {SelectSeq(o.processed,
                         LAMBDA i : ~o.stories[i].is_sent /\ Keeps(o.stories[i]))} :
          /\ processed' = o.processed
          /\ entry_processed' = {}
          /\ IF saved.new_count > 0 /\ unsent # <<>>
             THEN \E top \in {TopStories(o.stories, unsent, max_alerts)} :
                  \E ok \in SUBSET (1..Len(top)) :
                  \E sent \in {SendStoryBatch(o.stories, top, ok)} :
                    /\ stories' = sent
                    /\ attempted' = top
                    /\ delivered' =
                          [id \in StoryIds |->
                              delivered[id]
                              + Cardinality({k \in ok : o.stories[top[k]].id = id})]
                    /\ db' = MarkSent(saved.db, sent, unsent, 1)
             ELSE /\ stories' = o.stories
                  /\ attempted' = <<>>
                  /\ db' = saved.db
                  /\ UNCHANGED delivered
    /\ UNCHANGED <<scoring_file, rules, max_alerts>>
    /\ UNCHANGED call_vars

CycleNext == CollectAndAlert

SpecCycle == CycleInit /\ [][CycleNext]_vars

\* ------------------------------------------- one classification, stepwise
\* process_stories classifying the one record of its batch, with each
\* read of self.rules a step of its own, beside a second thread that calls
\* reload_rules. The record is stories[1].

ReloadInit ==
    /\ scoring_file \in FileContents
    /\ rules = LoadScoringRules(scoring_file)
    /\ \E e \in Entries : stories = CollectFromFeed(<<e>>)
    /\ processed = <<>>
    /\ entry_processed = {}
    /\ max_alerts = DefaultMaxAlerts
    /\ db = <<>>
    /\ delivered = [id \in StoryIds |-> 0]
    /\ attempted = <<>>
    /\ cycles = 0
    /\ pc = "text"
    /\ frame = NoFrame

\* Every lookup appends the self.rules it read to frame.reads; on a None
\* rule set its .get raises.

\* what a step of the call leaves alone besides the record and its locals
CallKeeps ==
    /\ UNCHANGED <<scoring_file, rules, processed, entry_processed>>
    /\ UNCHANGED cycle_vars

\* lines 65-67: text and title_text; a None title raises
BuildText ==
    /\ pc = "text"
    /\ pc' = IF stories[1].title = None THEN "raised" ELSE "signals"
    /\ UNCHANGED <<stories, frame>>
    /\ CallKeeps

\* lines 70-72: self.rules.get('positive_signals', {}) and title_pos
LookupSignals ==
    /\ pc = "signals"
    /\ IF ~rules.loaded
       THEN /\ pc' = "raised"
            /\ frame' = [frame EXCEPT !.reads = Append(@, rules)]
       ELSE /\ pc' = "indicators"
            /\ frame' = [frame EXCEPT !.reads = Append(@, rules),
                                      !.title_pos = TitlePos(stories[1], rules)]
    /\ UNCHANGED stories
    /\ CallKeeps

\* lines 75-89: self.rules.get('negative_indicators', {}), title_neg,
\* neg_count and the two gates
LookupIndicators ==
    /\ pc = "indicators"
    /\ IF ~rules.loaded
       THEN /\ pc' = "raised"
            /\ frame' = [frame EXCEPT !.reads = Append(@, rules)]
            /\ UNCHANGED stories
       ELSE /\ frame' = [frame EXCEPT !.reads = Append(@, rules),
                                      !.neg_count = NegCount(stories[1], rules)]
            /\ IF Gate1(frame.title_pos)
               THEN /\ stories' = [stories EXCEPT ![1].impact_score = 0,
                                                  ![1].category = "Neutral"]
                    /\ pc' = "returned"
               ELSE IF Gate2(TitleNeg(stories[1], rules), frame.title_pos)
               THEN /\ stories' = [stories EXCEPT ![1].impact_score = 0,
                                                  ![1].category = "Negative"]
                    /\ pc' = "returned"
               ELSE /\ UNCHANGED stories
                    /\ pc' = "categories"
    /\ CallKeeps

\* lines 92-93: _categorize reads self.rules.get('positive_categories', {})
LookupCategories ==
    /\ pc = "categories"
    /\ IF ~rules.loaded
       THEN /\ pc' = "raised"
            /\ frame' = [frame EXCEPT !.reads = Append(@, rules)]
            /\ UNCHANGED stories
       ELSE LET c == Categorize(TextOf(stories[1]), rules) IN
            /\ frame' = [frame EXCEPT !.reads = Append(@, rules),
                                      !.base = c.base]
            /\ stories' = [stories EXCEPT ![1].category = c.category]
            /\ pc' = "modifiers"
    /\ CallKeeps

\* lines 94-100: _calculate_impact reads self.rules.get('impact_modifiers',
\* {}); then the penalty and the clamp
LookupModifiers ==
    /\ pc = "modifiers"
    /\ IF ~rules.loaded
       THEN /\ pc' = "raised"
            /\ frame' = [frame EXCEPT !.reads = Append(@, rules)]
            /\ UNCHANGED stories
       ELSE LET impact == CalculateImpact(TextOf(stories[1]), frame.base, rules)
                score == IF frame.neg_count > 0
                         THEN impact - frame.neg_count * NegPenalty
                         ELSE impact
            IN
            /\ frame' = [frame EXCEPT !.reads = Append(@, rules)]
            /\ stories' = [stories EXCEPT ![1].impact_score = Clamp(score)]
            /\ pc' = "tags"
    /\ CallKeeps

\* lines 101-102: _extract_tags reads self.rules.get('positive_categories',
\* {}); then _generate_summary, which raises on a None description
LookupTags ==
    /\ pc = "tags"
    /\ IF ~rules.loaded
       THEN /\ pc' = "raised"
            /\ frame' = [frame EXCEPT !.reads = Append(@, rules)]
            /\ UNCHANGED stories
       ELSE /\ frame' = [frame EXCEPT !.reads = Append(@, rules)]
            /\ \E t \in ExtractTags(TextOf(stories[1]), rules) :
                 IF stories[1].description = None
                 THEN /\ stories' = [stories EXCEPT ![1].tags = t,
                                                    ![1].has_tags = TRUE]
                      /\ pc' = "raised"
                 ELSE /\ stories' = [stories EXCEPT
                             ![1].tags = t, ![1].has_tags = TRUE,
                             ![1].summary = GenerateSummary(stories[1])]
                      /\ pc' = "returned"
    /\ CallKeeps

\* process_stories lines 51-59 after the call: is_processed and the filter
\* when it returned, the except branch when it raised
FinishStory ==
    /\ pc \in {"returned", "raised"}
    /\ pc' = "done"
    /\ IF pc = "returned"
       THEN /\ stories' = [stories EXCEPT ![1].is_processed = TRUE]
            /\ processed' = IF Keeps(stories[1]) THEN <<1>> ELSE <<>>
       ELSE UNCHANGED <<stories, processed>>
    /\ UNCHANGED <<scoring_file, rules, entry_processed, frame>>
    /\ UNCHANGED cycle_vars

ReloadNext ==
    \/ BuildText
    \/ LookupSignals
    \/ LookupIndicators
    \/ LookupCategories
    \/ LookupModifiers
    \/ LookupTags
    \/ FinishStory
    \/ ReloadRules

SpecReload == ReloadInit /\ [][ReloadNext]_vars

\* =================================================================== claims
\* the members of the returned list
Returned == {processed[k] : k \in 1..Len(processed)}

Indices == 1..Len(stories)

\* the positive-signal keywords of the active rule set a title contains
TitleSignals(story) ==
    CountMatches(RulesGet(rules, "positive_signals"), Lower(story.title))

\* the negative-indicator keywords of the active rule set a title contains
TitleIndicators(story) ==
    CountMatches(RulesGet(rules, "negative_indicators"), Lower(story.title))

\* C1: process_stories never returns a record whose impact_score is below
\* MIN_IMPACT_SCORE, whether the record was classified in this call or was
\* already processed when the call began.
C1_ThresholdFilter ==
    \A i \in Returned : stories[i].impact_score >= MIN_IMPACT_SCORE

\* C1 witness: a call returned a record that was already processed on entry
\* and left out a classified record that scores above zero but below the
\* threshold.
C1_Witness ==
    /\ \E i \in Returned : i \in entry_processed
    /\ \E j \in Indices \ Returned :
          /\ stories[j].is_processed
          /\ stories[j].impact_score > 0

\* C2 as stated: a record that is processed when process_stories is called
\* keeps all its fields and does not appear in the returned list, whatever
\* its impact_score.
C2_SkippedEntirely ==
    [][ProcessStories =>
          \A i \in Indices :
              stories[i].is_processed =>
                  /\ stories'[i] = stories[i]
                  /\ \A k \in 1..Len(processed') : processed'[k] # i]_vars

\* C2 amended: a record that is processed when process_stories is called
\* keeps all its fields, and it appears in the returned list exactly when
\* its impact_score is at least MIN_IMPACT_SCORE.
C2_NotReclassifiedButFiltered ==
    [][ProcessStories =>
          \A i \in Indices :
              stories[i].is_processed =>
                  /\ stories'[i] = stories[i]
                  /\ (\E k \in 1..Len(processed') : processed'[k] = i)
                        <=> stories[i].impact_score >= MIN_IMPACT_SCORE]_vars

\* C2 witness: of two records already processed when the call began, the
\* call returned the one at or above the threshold and not the other.
C2_Witness ==
    /\ \E i \in entry_processed : i \in Returned
    /\ \E j \in entry_processed : j \notin Returned

\* C3: a story that an earlier cycle stored and delivered is not delivered
\* again when a later fetch presents its id, also when that fetch carries a
\* new story as well.
C3_NoRedelivery ==
    [][\A r \in 1..Len(db) :
          db[r].is_sent = 1 => delivered'[db[r].id] = delivered[db[r].id]]_vars

\* C4: Gate 1: an unprocessed record whose title holds no positive-signal
\* keyword is classified "Neutral" with score 0, whatever the description,
\* the negative indicators, the categories and the modifiers.
C4_Gate1 ==
    [][ProcessStories =>
          \A i \in Indices :
              (/\ ~stories[i].is_processed
               /\ stories[i].title # None
               /\ rules.loaded
               /\ TitleSignals(stories[i]) = 0)
              => /\ stories'[i].is_processed
                 /\ stories'[i].category = "Neutral"
                 /\ stories'[i].impact_score = 0]_vars

\* C4 witness: a record classified "Neutral" although its description holds
\* a positive signal and a modifier keyword and its title two negative
\* indicators.
C4_Witness ==
    \E i \in Indices :
        /\ stories[i].is_processed
        /\ stories[i].category = "Neutral"
        /\ rules = RulesA
        /\ TitleSignals(stories[i]) = 0
        /\ CountMatches(RulesGet(rules, "positive_signals"), TextOf(stories[i])) > 0
        /\ TitleIndicators(stories[i]) = 2

\* C5 as stated: Gate 2: an unprocessed record whose title holds more
\* negative-indicator keywords than positive-signal keywords is classified
\* "Negative" with score 0.
C5_Gate2AnyTitle ==
    [][ProcessStories =>
          \A i \in Indices :
              (/\ ~stories[i].is_processed
               /\ stories[i].title # None
               /\ rules.loaded
               /\ TitleIndicators(stories[i]) > TitleSignals(stories[i]))
              => /\ stories'[i].category = "Negative"
                 /\ stories'[i].impact_score = 0]_vars

\* C5 amended: Gate 2: an unprocessed record whose title holds at least one
\* positive-signal keyword and more negative-indicator keywords than
\* positive-signal keywords is classified "Negative" with score 0.
C5_Gate2 ==
    [][ProcessStories =>
          \A i \in Indices :
              (/\ ~stories[i].is_processed
               /\ stories[i].title # None
               /\ rules.loaded
               /\ TitleSignals(stories[i]) >= 1
               /\ TitleIndicators(stories[i]) > TitleSignals(stories[i]))
              => /\ stories'[i].is_processed
                 /\ stories'[i].category = "Negative"
                 /\ stories'[i].impact_score = 0]_vars

\* C5 witness: a record classified "Negative" whose title holds one
\* positive signal and two negative indicators.
C5_Witness ==
    \E i \in Indices :
        /\ stories[i].is_processed
        /\ stories[i].category = "Negative"
        /\ rules = RulesA
        /\ TitleSignals(stories[i]) = 1
        /\ TitleIndicators(stories[i]) = 2

\* C6: Clamping: the impact_score classification leaves on a record lies in
\* [0.0, 10.0], for every rule set and negative-indicator count.
C6_Clamped ==
    \A i \in Indices :
        /\ stories[i].impact_score >= 0
        /\ stories[i].impact_score <= MaxScore

\* C6 witness: one record scored 10.0 where base plus modifiers exceed it,
\* and another scored 0.0 where the modifiers and the penalty take the sum
\* below zero.
C6_Witness ==
    /\ \E i \in Indices :
          /\ stories[i].title # None
          /\ stories[i].impact_score = MaxScore
          /\ RawScore(stories[i], RulesA) > MaxScore
    /\ \E j \in Indices :
          /\ stories[j].title # None
          /\ stories[j].is_processed
          /\ stories[j].category = "Other"
          /\ stories[j].impact_score = 0
          /\ RawScore(stories[j], RulesB) < 0

\* C7: Tag bound: a tag list has at most 8 members, and a record classified
\* past both gates carries both "cyber-good-news" and "security-positive".
C7_TagBound ==
    \A i \in Indices :
        /\ Cardinality(stories[i].tags) <= MaxTags
        /\ stories[i].has_tags => BaseTags \subseteq stories[i].tags
        /\ stories[i].category \notin {"Uncategorized", "Neutral", "Negative"}
              => stories[i].has_tags

\* C7 witness: a record with 8 tags, both base tags among them, whose text
\* matches more than 6 category keywords.
C7_Witness ==
    \E i \in Indices :
        /\ stories[i].title # None
        /\ stories[i].has_tags
        /\ Cardinality(stories[i].tags) = MaxTags
        /\ BaseTags \subseteq stories[i].tags
        /\ CountMatches(AllKeywords(RulesGet(RulesA, "positive_categories"), 1),
                        TextOf(stories[i])) > 6

\* a rule set with at least one category and keywords of both polarities
FullyPopulated(rs) ==
    /\ rs.loaded
    /\ Len(RulesGet(rs, "positive_categories")) >= 1
    /\ Len(RulesGet(rs, "positive_signals")) >= 1
    /\ Len(RulesGet(rs, "negative_indicators")) >= 1

\* C8: when the lexicon file cannot be loaded, the rule set loaded from it
\* is fully populated: at least one category and non-empty positive-signal
\* and negative-indicator keyword lists.
C8_FallbackPopulated ==
    scoring_file \in {"missing", "malformed"} => FullyPopulated(rules)

\* the records whose classification raises in a call on the current state
Failing ==
    {i \in Indices :
        /\ ~stories[i].is_processed
        /\ \E o \in AnalyzeStory(stories[i], rules) : o.raised}

\* the members of seq at the indices in keep, in order
RECURSIVE Restrict(_, _, _)
Restrict(seq, keep, i) ==
    IF i > Len(seq) THEN <<>>
    ELSE (IF i \in keep THEN <<seq[i]>> ELSE <<>>) \o Restrict(seq, keep, i + 1)

\* the position of index i once the indices outside keep are removed
Rank(i, keep) == Cardinality({j \in keep : j <= i})

\* C9: when classification of a record raises, process_stories still
\* completes, leaves that record out of the returned list, and classifies
\* and filters the other records exactly as a call on the batch without
\* the raising record does.
C9_FailureIsolated ==
    [][ProcessStories =>
          LET keep == Indices \ Failing IN
          /\ \A k \in 1..Len(processed') : processed'[k] \in keep
          /\ \E o \in ProcessStoriesOutcomes(Restrict(stories, keep, 1), rules) :
                /\ o.stories = Restrict(stories', keep, 1)
                /\ o.processed = [k \in 1..Len(processed') |->
                                     Rank(processed'[k], keep)]]_vars

\* C9 witness: the middle record of three raised (its title is None) and
\* the call returned the records before and after it.
C9_Witness ==
    /\ Len(stories) >= 3
    /\ stories[2].title = None
    /\ ~stories[2].is_processed
    /\ processed = <<1, 3>>

\* the category names classification can assign under a rule set
ResultCategories(rs) ==
    {RulesGet(rs, "positive_categories")[k].name :
        k \in 1..Len(RulesGet(rs, "positive_categories"))}
    \cup {"Other", "Neutral", "Negative"}

\* the fresh record a stored record was collected as
Fresh(story) ==
    [story EXCEPT !.category = "Uncategorized", !.impact_score = 0,
                  !.summary = NoSummary, !.tags = {}, !.has_tags = FALSE,
                  !.is_processed = FALSE, !.is_sent = FALSE]

\* category and score are what a completed classification of the record
\* under some loadable rule set assigns
ClassifiedValue(story) ==
    \E f \in FileContents :
        /\ story.category \in ResultCategories(LoadScoringRules(f))
        /\ \E o \in AnalyzeStory(Fresh(story), LoadScoringRules(f)) :
              /\ ~o.raised
              /\ o.story.category = story.category
              /\ o.story.impact_score = story.impact_score

\* C10: a record with is_processed = true has a classification result as
\* its category (never "Uncategorized") and the final clamped value as its
\* impact_score, and later process_stories calls change neither.
C10_ProcessedIsFinal ==
    /\ [](\A i \in Indices :
            stories[i].is_processed =>
                /\ stories[i].category # "Uncategorized"
                /\ stories[i].impact_score >= 0
                /\ stories[i].impact_score <= MaxScore
                /\ ClassifiedValue(stories[i]))
    /\ [][\A i \in Indices :
            stories[i].is_processed =>
                /\ stories'[i].is_processed
                /\ stories'[i].category = stories[i].category
                /\ stories'[i].impact_score = stories[i].impact_score]_vars

\* C10 witness: a call under a reloaded rule set met a processed record
\* whose score that rule set would not assign, beside a record whose
\* classification raised and which stays unprocessed.
C10_Witness ==
    /\ rules = RulesB
    /\ \E i \in entry_processed :
          /\ stories[i].impact_score = MaxScore
          /\ \A o \in AnalyzeStory(Fresh(stories[i]), rules) :
                o.story.impact_score # stories[i].impact_score
    /\ \E j \in Indices :
          /\ ~stories[j].is_processed
          /\ stories[j].category # "Uncategorized"

\* the number of keywords of category k of the active rule set in a text
CategoryCount(k, text) ==
    CountMatches(RulesGet(rules, "positive_categories")[k].keywords, text)

CategoryIndices == 1..Len(RulesGet(rules, "positive_categories"))

\* the category the claim names for a text: the earliest declared among
\* those with the greatest count, with its base score; "Other" with 3.0
\* when no category matches
ExpectedCategory(text) ==
    IF \A k \in CategoryIndices : CategoryCount(k, text) = 0
    THEN [category |-> "Other", base |-> OtherBase]
    ELSE LET w == CHOOSE k \in CategoryIndices :
                    /\ \A l \in CategoryIndices :
                          CategoryCount(l, text) <= CategoryCount(k, text)
                    /\ \A l \in CategoryIndices :
                          CategoryCount(l, text) = CategoryCount(k, text) => k <= l
         IN [category |-> RulesGet(rules, "positive_categories")[w].name,
             base |-> BaseScoreOf(RulesGet(rules, "positive_categories")[w])]

\* an unprocessed record that a call under the active rule set classifies
\* past both gates
PassesGates(story) ==
    /\ ~story.is_processed
    /\ story.title # None
    /\ rules.loaded
    /\ TitleSignals(story) >= 1
    /\ TitleIndicators(story) <= TitleSignals(story)

\* C11: Category selection: a record passing both gates gets the category
\* with the greatest keyword-match count over the full text, the earliest
\* declared among those tied for it, with that category's base score; when
\* no category matches it gets "Other" with base score 3.0.
C11_CategorySelection ==
    [][ProcessStories =>
          \A i \in Indices :
              PassesGates(stories[i]) =>
                  /\ stories'[i].category =
                        ExpectedCategory(TextOf(stories[i])).category
                  /\ Categorize(TextOf(stories[i]), rules) =
                        ExpectedCategory(TextOf(stories[i]))]_vars

\* C11 witness: under a rule set with two categories, one record got the
\* first of two categories tied at one match and another, matching no
\* category, got "Other".
C11_Witness ==
    /\ rules = RulesB
    /\ \E i \in Indices :
          /\ stories[i].is_processed
          /\ stories[i].category = "Innovation & Research"
          /\ CategoryCount(1, TextOf(stories[i])) = 1
          /\ CategoryCount(2, TextOf(stories[i])) = 1
    /\ \E j \in Indices :
          /\ stories[j].is_processed
          /\ stories[j].category = "Other"
          /\ stories[j].impact_score > 0
          /\ \A k \in CategoryIndices : CategoryCount(k, TextOf(stories[j])) = 0

\* the sum of the deltas of the modifiers from index k on that have at
\* least one keyword in the text
RECURSIVE SumDeltas(_, _, _)
SumDeltas(mods, k, text) ==
    IF k > Len(mods) THEN 0
    ELSE (IF \E n \in 1..Len(mods[k].keywords) :
                Contains(Lower(mods[k].keywords[n]), text)
          THEN ModifierOf(mods[k]) ELSE 0)
         + SumDeltas(mods, k + 1, text)

\* base + modifier deltas - 0.5 x neg_count, with neg_count counted over the
\* full text
ExpectedRaw(story) ==
    ExpectedCategory(TextOf(story)).base
    + SumDeltas(RulesGet(rules, "impact_modifiers"), 1, TextOf(story))
    - NegPenalty * CountMatches(RulesGet(rules, "negative_indicators"),
                                TextOf(story))

\* C12: Score composition: a record passing both gates gets the impact_score
\* clamp to [0, 10] of base score + the delta of every modifier with a
\* keyword in the full text, each once - 0.5 x neg_count, where neg_count
\* counts the negative indicators in title plus description.
C12_ScoreComposition ==
    [][ProcessStories =>
          \A i \in Indices :
              PassesGates(stories[i]) =>
                  LET raw == ExpectedRaw(stories[i]) IN
                  /\ RawScore(stories[i], rules) = raw
                  /\ stories'[i].impact_score =
                        (IF raw < 0 THEN 0 ELSE IF raw > MaxScore THEN MaxScore
                         ELSE raw)]_vars

\* C12 witness: a record scored 8.5 = 8.0 + 3.5 - 2.0 - 0.5 x 2 whose two
\* negative indicators are in the description and not in the title, beside
\* a record whose modifier has two keywords in the text and counts once.
C12_Witness ==
    /\ rules = RulesA
    /\ \E i \in Indices :
          /\ stories[i].is_processed
          /\ stories[i].impact_score = 85
          /\ TitleIndicators(stories[i]) = 0
          /\ CountMatches(RulesGet(rules, "negative_indicators"),
                          TextOf(stories[i])) = 2
    /\ \E j \in Indices :
          /\ stories[j].is_processed
          /\ CountMatches(RulesGet(rules, "impact_modifiers")[1].keywords,
                          TextOf(stories[j])) = 2
          /\ RawScore(stories[j], rules) = 105

\* C13: Reload atomicity: every rule lookup of one classification reads
\* the same rule set, also when reload_rules runs between two of the
\* lookups.
C13_SameSnapshot ==
    \A k, l \in DOMAIN frame.reads : frame.reads[k] = frame.reads[l]

\* the rows of the stories table
Rows == 1..Len(db)

\* the records the last send_story_batch tried
Attempts == {attempted[k] : k \in 1..Len(attempted)}

\* C14: Store consistency: a row with is_sent = 1 is a stored story the
\* webhook accepted at least once, so a story whose every attempt failed or
\* that the max-alerts cut kept from being tried is not marked; no id is
\* stored twice and the sent count is at most the total count.
C14_SentRowsDelivered ==
    /\ \A r \in Rows : db[r].is_sent \in {0, 1}
    /\ \A r \in Rows : db[r].is_sent = 1 => delivered[db[r].id] >= 1
    /\ \A r1, r2 \in Rows : db[r1].id = db[r2].id => r1 = r2
    /\ Cardinality({r \in Rows : db[r].is_sent = 1}) <= Len(db)

\* C14 witness: after two cycles the store holds a sent row beside an
\* unsent row of a positive story that was never accepted and that the last
\* batch, cut to one alert, did not try.
C14_Witness ==
    /\ cycles = 2
    /\ max_alerts = 1
    /\ Len(attempted) = 1
    /\ Len(db) = 2
    /\ db[1].is_sent = 0
    /\ db[2].is_sent = 1
    /\ delivered[db[1].id] = 0
    /\ \E i \in Returned \ Attempts :
          /\ stories[i].id = db[1].id
          /\ stories[i].impact_score >= MIN_IMPACT_SCORE
          /\ ~stories[i].is_sent

\* C15: Alert selection: the last send_story_batch tried at most max_alerts
\* stories, each scoring at least the threshold, in non-increasing score
\* order, and no positive story of the batch it left untried scores
\* strictly higher than one it tried.
C15_AlertSelection ==
    /\ Len(attempted) <= max_alerts
    /\ \A k \in 1..Len(attempted) :
          stories[attempted[k]].impact_score >= MIN_IMPACT_SCORE
    /\ \A k, l \in 1..Len(attempted) :
          k < l => stories[attempted[k]].impact_score
                      >= stories[attempted[l]].impact_score
    /\ \A i \in Returned \ Attempts : \A j \in Attempts :
          stories[i].impact_score >= MIN_IMPACT_SCORE
              => stories[i].impact_score <= stories[j].impact_score

\* C15 witness: with one alert allowed the batch tried the higher of two
\* positive stories although the lower came first in the feed.
C15_Witness ==
    /\ max_alerts = 1
    /\ Len(attempted) = 1
    /\ \E i \in Returned \ Attempts :
          /\ i < attempted[1]
          /\ stories[i].impact_score >= MIN_IMPACT_SCORE
          /\ stories[i].impact_score < stories[attempted[1]].impact_score

====
